---- MODULE Spec2Model ----
(***************************************************************************)
(* A model of data_utils/__init__.py: the dataset-assembly pipeline        *)
(* make_dataset (corpus resolution, lazy-cache materialisation, combining, *)
(* tokenizer construction, splitting and task windowing).                  *)
(*                                                                         *)
(* Each process of Procs is an independent OS process calling make_dataset *)
(* again and again; the processes share only the on-disk lazy cache.       *)
(***************************************************************************)
EXTENDS Integers, Sequences, FiniteSets, TLC

\* ------------------------------------------------------------------ bounds
\* longest list of paths handed to make_dataset
MaxPaths == 2
\* largest entry of a split proportion vector (integer weights)
MaxProp == 2
\* the counters of materialising calls saturate here
MaxCount == 2

\* ------------------------------------------------------- program constants
TRAIN_DATA == 0
VAL_DATA == 1
TEST_DATA == 2

Procs == {1, 2}
DataTypes == {"prompt", "text"}

\* ---------------------------------------------------------------- helpers
RECURSIVE SumSeq(_)
SumSeq(s) == IF s = <<>> THEN 0 ELSE Head(s) + SumSeq(Tail(s))

RECURSIVE MaxSeq(_)
MaxSeq(s) ==
    IF Len(s) = 1 THEN s[1]
    ELSE LET m == MaxSeq(Tail(s)) IN IF s[1] >= m THEN s[1] ELSE m

RECURSIVE Gcd(_, _)
Gcd(a, b) == IF b = 0 THEN a ELSE Gcd(b, a % b)

RECURSIVE Flatten(_)
Flatten(ss) == IF ss = <<>> THEN <<>> ELSE Head(ss) \o Flatten(Tail(ss))

Reverse(s) == [k \in 1..Len(s) |-> s[Len(s) + 1 - k]]

SeqsUpTo(S, n) == UNION {[1..k -> S] : k \in 1..n}

Inc(n) == IF n < MaxCount THEN n + 1 ELSE MaxCount

\* ------------------------------------------------ collaborators' contracts
\* corpora.NAMED_CORPORA: the registry of named corpora
NAMED_CORPORA == {"wikipedia"}

\* corpora.NAMED_CORPORA[name].PATH
CorpusPATH(name) == "/data/wikipedia.txt"

CachePaths == {CorpusPATH(n) : n \in NAMED_CORPORA}

\* the records a source holds, in file order (prompts and texts are parallel
\* views of the same records, so a record stands for its prompt/text pair)
SourceRecords(path) ==
    CASE path = "wikipedia" -> <<1, 2, 3>>
      [] path = "d.json"    -> <<4, 5>>
      [] path = "d.csv"     -> <<6>>
      [] OTHER              -> <<>>

\* the path arguments the model draws from
Paths == {"wikipedia", "d.json", "d.txt"}

\* ------------------------------------------------------------ should_split
\* max(split) / sum(split) as a fraction in lowest terms
Ratio(split) ==
    LET m == MaxSeq(split)
        s == SumSeq(split)
        g == Gcd(s, m)
    IN  <<m \div g, s \div g>>

\* variant: split whenever more than one proportion is given
should_split_mut(split) == Len(split) > 1

\* max(split) / sum(split) != 1.   (ZeroDivisionError when sum(split) = 0)
should_split(split) == Ratio(split) # <<1, 1>>

should_split_raises(split) == SumSeq(split) = 0

\* ------------------------------------------------------- get_ext, get_dataset
\* os.path.splitext(path)[1]
get_ext(path) ==
    CASE path = "d.json" -> ".json"
      [] path = "d.csv"  -> ".csv"
      [] path = "d.txt"  -> ".txt"
      [] OTHER           -> ""

supported_corpus(corpus_name) == corpus_name \in NAMED_CORPORA

Raised(err) == [ok |-> FALSE, err |-> err, recs |-> <<>>]
Parsed(recs) == [ok |-> TRUE, err |-> "", recs |-> recs]

\* variant: an unknown extension is read as an empty source instead of raising
get_dataset_mut(path) == Parsed(SourceRecords(path))

get_dataset(path) ==
    IF supported_corpus(path) THEN Parsed(SourceRecords(path))
    ELSE LET ext == get_ext(path) IN
         IF ext \in {".json", ".jsonl"} THEN Parsed(SourceRecords(path))
         ELSE IF ext \in {".csv", ".tsv"} THEN Parsed(SourceRecords(path))
         ELSE Raised("NotImplementedError")

\* ------------------------------------------------------------ dataset objects
\* Python's None, and a dataset object over a sequence of records; win is the
\* task window the object is wrapped in
NoWin == [kind |-> "none"]
None == [absent |-> TRUE, recs |-> <<>>, win |-> NoWin]
Dataset(recs) == [absent |-> FALSE, recs |-> recs, win |-> NoWin]

\* corpora.ChineseDataset(prompt_loader=..., text_loader=...): record i pairs
\* prompts[i] with texts[i]
ChineseDataset(prompts, texts) == texts

\* datasets.ConcatDataset
ConcatDataset(dss) == Flatten(dss)

\* datasets.ShuffleDataset: one fixed permutation of the index space
ShuffleDataset(recs) ==
    IF recs = <<>> THEN recs ELSE Tail(recs) \o <<Head(recs)>>

\* tokenizers: None, a caller's tokenizer, one built by make_tokenizer
NoDs == [kind |-> "none", slots |-> <<>>]
NoTokenizer == [kind |-> "none", fitOn |-> NoDs]
CallerTokenizer == [kind |-> "supplied", fitOn |-> NoDs]
make_tokenizer(tokenizer_type, ds) == [kind |-> tokenizer_type, fitOn |-> ds]

\* the tokenizer types make_tokenizer knows; any other name makes it raise
TokenizerTypes ==
    {"CharacterLevelTokenizer", "BertWordPieceTokenizer", "GPT2BPETokenizer"}

make_tokenizer_raises(tokenizer_type) == tokenizer_type \notin TokenizerTypes

\* ------------------------------------------------------------------- split_ds
\* slice sizes: proportion_i * N truncated, the remainder handed out one record
\* each to the first non-zero proportions
SplitBase(split, n, k) == (split[k] * n) \div SumSeq(split)

SplitRemainder(split, n) ==
    n - SumSeq([k \in 1..Len(split) |-> SplitBase(split, n, k)])

SplitSize(split, n, k) ==
    IF split[k] = 0 THEN 0
    ELSE SplitBase(split, n, k)
         + (IF Cardinality({j \in 1..(k - 1) : split[j] # 0}) < SplitRemainder(split, n)
            THEN 1 ELSE 0)

SplitStart(split, n, k) ==
    SumSeq([j \in 1..(k - 1) |-> SplitSize(split, n, j)])

\* datasets.split_ds(ds, split, shuffle): one slot per proportion, None for a
\* proportion of zero
split_ds(recs, split, shuffle) ==
    LET n == Len(recs)
        inds == IF shuffle THEN Reverse(recs) ELSE recs
    IN  [k \in 1..Len(split) |->
            IF split[k] = 0 THEN None
            ELSE Dataset(SubSeq(inds, SplitStart(split, n, k) + 1,
                                SplitStart(split, n, k) + SplitSize(split, n, k)))]

\* ------------------------------------------------------- windowing constructors
bert_sentencepair_dataset(d, max_seq_len, presplit_sentences) ==
    [absent |-> FALSE, recs |-> d.recs,
     win |-> [kind |-> "bert", max_seq_len |-> max_seq_len,
              presplit_sentences |-> presplit_sentences]]

GPT2Dataset(d, tokenizer, max_seq_len, use_tokenizer, sample_across_doc) ==
    [absent |-> FALSE, recs |-> d.recs,
     win |-> [kind |-> "gpt2", tokenizer |-> tokenizer, max_seq_len |-> max_seq_len,
              use_tokenizer |-> use_tokenizer, sample_across_doc |-> sample_across_doc]]

XLDataset(d, tokenizer, max_seq_len, use_tokenizer, sample_across_doc) ==
    [absent |-> FALSE, recs |-> d.recs,
     win |-> [kind |-> "xl", tokenizer |-> tokenizer, max_seq_len |-> max_seq_len,
              use_tokenizer |-> use_tokenizer, sample_across_doc |-> sample_across_doc]]

\* str.lower() on the task tags the model draws
Lower(s) ==
    CASE s = "BERT" -> "bert"
      [] s = "GPT2" -> "gpt2"
      [] OTHER      -> s

\* ------------------------------------------------- decisions of make_dataset
\* get_dataset_from_path, lines 79-85 and 98: which branch a path takes
\* variant: an unregistered path falls back to eager loading
resolve_mode_mut(lazy, path_) ==
    IF lazy /\ supported_corpus(path_) THEN "lazy" ELSE "eager"

resolve_mode(lazy, path_) ==
    IF lazy
    THEN IF supported_corpus(path_) THEN "lazy" ELSE "raise"
    ELSE "eager"

\* line 86: not (exists_lazy(prompt) and exists_lazy(text))
\* variants: no existence check at all; "or" in place of "and"
needs_materialize_always(prompt_exists, text_exists) == TRUE

needs_materialize_either(prompt_exists, text_exists) ==
    ~(prompt_exists \/ text_exists)

needs_materialize(prompt_exists, text_exists) ==
    ~(prompt_exists /\ text_exists)

\* line 114: tokenizer is None
\* variant: the caller's tokenizer is ignored
tokenizer_is_none_mut(tokenizer) == TRUE

tokenizer_is_none(tokenizer) == tokenizer = NoTokenizer

\* the order of the statements of make_dataset's body after the datasets are
\* resolved: lines 106-112, 114-116, 118-123, 124-146
\* variant: the split moved before the tokenizer
StageAfter_mut(stage) ==
    CASE stage = "combine"   -> "split"
      [] stage = "split"     -> "tokenizer"
      [] stage = "tokenizer" -> "window"

StageAfter(stage) ==
    CASE stage = "combine"   -> "tokenizer"
      [] stage = "tokenizer" -> "split"
      [] stage = "split"     -> "window"

\* line 123: split_ds(ds, split, shuffle=False)
\* variant: shuffle=True
split_call_mut(recs, split) == split_ds(recs, split, TRUE)

split_call(recs, split) == split_ds(recs, split, FALSE)

\* lines 118-120: ds_type = kwargs['ds_type'] if present, else ''
ds_type_of(kwargs) == IF kwargs.has_ds_type THEN kwargs.ds_type ELSE ""

\* lines 125, 138
presplit_of(kwargs) == IF kwargs.has_presplit THEN kwargs.presplit_sentences ELSE FALSE

\* lines 124-135: the wrapping of one slot d of a split dataset
\* variant: without the "if d is not None" guards
wrap_split_mut(d, a, tokenizer) ==
    LET t == Lower(ds_type_of(a.kwargs)) IN
    IF t = "bert"
    THEN bert_sentencepair_dataset(d, a.seq_length, presplit_of(a.kwargs))
    ELSE IF t = "gpt2"
    THEN IF a.xl_style
         THEN XLDataset(d, tokenizer, a.seq_length, FALSE, ~a.sample_one_document)
         ELSE GPT2Dataset(d, tokenizer, a.seq_length, FALSE, ~a.sample_one_document)
    ELSE d

wrap_split(d, a, tokenizer) ==
    LET t == Lower(ds_type_of(a.kwargs)) IN
    IF t = "bert"
    THEN IF d # None
         THEN bert_sentencepair_dataset(d, a.seq_length, presplit_of(a.kwargs))
         ELSE None
    ELSE IF t = "gpt2"
    THEN IF a.xl_style
         THEN IF d # None
              THEN XLDataset(d, tokenizer, a.seq_length, FALSE, ~a.sample_one_document)
              ELSE None
         ELSE IF d # None
              THEN GPT2Dataset(d, tokenizer, a.seq_length, FALSE, ~a.sample_one_document)
              ELSE None
    ELSE d

\* lines 137-146: the wrapping of an unsplit dataset
\* variant: without .lower()
wrap_unsplit_mut(d, a, tokenizer) ==
    LET t == ds_type_of(a.kwargs) IN
    IF t = "bert"
    THEN bert_sentencepair_dataset(d, a.seq_length, presplit_of(a.kwargs))
    ELSE IF t = "gpt2"
    THEN IF a.xl_style
         THEN XLDataset(d, tokenizer, a.seq_length, FALSE, ~a.sample_one_document)
         ELSE GPT2Dataset(d, tokenizer, a.seq_length, FALSE, ~a.sample_one_document)
    ELSE d

wrap_unsplit(d, a, tokenizer) ==
    LET t == Lower(ds_type_of(a.kwargs)) IN
    IF t = "bert"
    THEN bert_sentencepair_dataset(d, a.seq_length, presplit_of(a.kwargs))
    ELSE IF t = "gpt2"
    THEN IF a.xl_style
         THEN XLDataset(d, tokenizer, a.seq_length, FALSE, ~a.sample_one_document)
         ELSE GPT2Dataset(d, tokenizer, a.seq_length, FALSE, ~a.sample_one_document)
    ELSE d

\* ------------------------------------------------------------------ arguments
NoKwargs ==
    [has_ds_type |-> FALSE, ds_type |-> "", has_presplit |-> FALSE,
     presplit_sentences |-> FALSE]

DsTypes == {"bert", "BERT", "gpt2", "GPT2", "lm"}

KwargsSet ==
    {NoKwargs}
    \cup {[has_ds_type |-> TRUE, ds_type |-> t, has_presplit |-> FALSE,
           presplit_sentences |-> FALSE] : t \in DsTypes}
    \cup {[has_ds_type |-> TRUE, ds_type |-> "bert", has_presplit |-> TRUE,
           presplit_sentences |-> TRUE]}

SeqLengths == {64}

\* the defaults of make_dataset's signature, lines 68-72
DefaultArgs ==
    [path |-> <<>>, is_str |-> TRUE, seq_length |-> 64, lazy |-> FALSE,
     xl_style |-> FALSE, shuffle |-> FALSE, split |-> <<1>>,
     tokenizer |-> NoTokenizer, tokenizer_type |-> "CharacterLevelTokenizer",
     sample_one_document |-> FALSE, kwargs |-> NoKwargs]

\* what a call may be given: the path argument (a str, or a list of paths) with
\* the lazy flag, and the other arguments. The arguments of a call never change;
\* the model draws each one where make_dataset first reads it, and args holds
\* the signature's default until then.
AllOptions ==
    [paths      |-> {<<s, TRUE>> : s \in [1..1 -> Paths]}
                    \cup {<<s, FALSE>> : s \in SeqsUpTo(Paths, MaxPaths)},
     lazy       |-> BOOLEAN,
     shuffle    |-> BOOLEAN,
     tokenizer  |-> {NoTokenizer, CallerTokenizer},
     tokenizer_type |-> {"CharacterLevelTokenizer", "NoSuchTokenizer"},
     split      |-> SeqsUpTo(0..MaxProp, 3),
     kwargs     |-> KwargsSet,
     xl_style   |-> BOOLEAN,
     sample_one_document |-> BOOLEAN]

\* lazy calls on the registered corpus, every other argument at its default
LazyDefaultOptions ==
    [paths      |-> {<<s, TRUE>> : s \in [1..1 -> NAMED_CORPORA]},
     lazy       |-> {TRUE},
     shuffle    |-> {DefaultArgs.shuffle},
     tokenizer  |-> {DefaultArgs.tokenizer},
     tokenizer_type |-> {DefaultArgs.tokenizer_type},
     split      |-> {DefaultArgs.split},
     kwargs     |-> {DefaultArgs.kwargs},
     xl_style   |-> {DefaultArgs.xl_style},
     sample_one_document |-> {DefaultArgs.sample_one_document}]

\* ---------------------------------------------------------------------- state
VARIABLES
    cache,  \* the on-disk lazy cache: cache[path][data_type]
    proc,   \* proc[p]: the make_dataset call process p is in (or was last in)
    hist    \* history: how many lazy calls parsed / wrote, loads during a write

vars == <<cache, proc, hist>>

NoEntry == [present |-> FALSE, writer |-> 0, data |-> <<>>, busy |-> {}]

Event(op, name, slot) == [op |-> op, name |-> name, slot |-> slot]

IdleCall ==
    [pc |-> "idle", args |-> DefaultArgs, idx |-> 1, text |-> <<>>,
     wdt |-> "prompt", wrote |-> 0, saw |-> [prompt |-> FALSE, text |-> FALSE],
     parts |-> <<>>, ds |-> NoDs, tokenizer |-> NoTokenizer, log |-> <<>>,
     error |-> "", cache0 |-> [c \in CachePaths |-> [d \in DataTypes |-> NoEntry]]]

Init ==
    /\ cache = [c \in CachePaths |-> [d \in DataTypes |-> NoEntry]]
    /\ proc = [p \in Procs |-> IdleCall]
    /\ hist = [parseCalls |-> 0, writeCalls |-> 0, loadDuringWrite |-> FALSE]

\* the exception err leaves the call
Fail(q, err) == [q EXCEPT !.pc = "failed", !.error = err]

\* the list comprehension of line 109 (or the single call of line 107) goes on
AfterPath(q) ==
    IF q.idx < Len(q.args.path)
    THEN [q EXCEPT !.idx = @ + 1, !.pc = "resolve"]
    ELSE [q EXCEPT !.pc = "combine"]

HasOp(log, op) == \E k \in 1..Len(log) : log[k].op = op

\* --------------------------------------------------------------------- actions
\* make_dataset is called: lines 68-77
StartCall(p, o) ==
    /\ proc[p].pc = "idle"
    /\ \E pa \in o.paths, lz \in o.lazy, sl \in SeqLengths :
          proc' = [proc EXCEPT ![p] =
                      [IdleCall EXCEPT !.pc = "resolve",
                                       !.args = [DefaultArgs EXCEPT !.path = pa[1],
                                                                    !.is_str = pa[2],
                                                                    !.lazy = lz,
                                                                    !.seq_length = sl],
                                       !.cache0 = cache]]
    /\ UNCHANGED <<cache, hist>>

\* get_dataset_from_path(path_), lines 78-85 and 98-103
Resolve(p) ==
    /\ proc[p].pc = "resolve"
    /\ LET q == proc[p]
           path_ == q.args.path[q.idx]
           mode == resolve_mode(q.args.lazy, path_)
           r == get_dataset(path_)
           q1 == [q EXCEPT !.log = Append(@, Event("get_dataset", path_, q.idx))]
       IN  proc' = [proc EXCEPT ![p] =
               IF mode = "lazy" THEN [q EXCEPT !.pc = "check"]
               ELSE IF mode = "raise" THEN Fail(q, "NotImplementedError")
               ELSE IF r.ok
                    THEN AfterPath([q1 EXCEPT !.parts =
                                       Append(@, ChineseDataset(r.recs, r.recs))])
                    ELSE Fail(q1, r.err)]
    /\ UNCHANGED <<cache, hist>>

\* line 86: the existence check (the second exists_lazy runs only if the first
\* says yes)
Check(p) ==
    /\ proc[p].pc = "check"
    /\ LET q == proc[p]
           name == q.args.path[q.idx]
           path_ == CorpusPATH(name)
           pe == cache[path_]["prompt"].present
           te == cache[path_]["text"].present
           l1 == Append(q.log, Event("exists_lazy", "prompt", q.idx))
           l2 == IF pe THEN Append(l1, Event("exists_lazy", "text", q.idx)) ELSE l1
       IN  proc' = [proc EXCEPT ![p] =
               [q EXCEPT !.log = l2,
                         !.saw = [prompt |-> pe, text |-> te],
                         !.pc = IF needs_materialize(pe, te) THEN "parse" ELSE "load"]]
    /\ UNCHANGED <<cache, hist>>

\* lines 88-90: text = get_dataset(name, ...)
Parse(p) ==
    /\ proc[p].pc = "parse"
    /\ LET q == proc[p]
           name == q.args.path[q.idx]
           r == get_dataset(name)
           q1 == [q EXCEPT !.log = Append(@, Event("get_dataset", name, q.idx))]
       IN  /\ proc' = [proc EXCEPT ![p] =
                  IF r.ok
                  THEN [q1 EXCEPT !.text = r.recs, !.pc = "make_lazy", !.wdt = "prompt"]
                  ELSE Fail(q1, r.err)]
           /\ hist' = IF HasOp(q.log, "get_dataset") THEN hist
                      ELSE [hist EXCEPT !.parseCalls = Inc(@)]
    /\ UNCHANGED cache

\* lines 91, 92: make_lazy(path_, ..., data_type=wdt) starts writing the entry
MakeLazyBegin(p) ==
    /\ proc[p].pc = "make_lazy"
    /\ LET q == proc[p]
           path_ == CorpusPATH(q.args.path[q.idx])
       IN  /\ cache' = [cache EXCEPT ![path_][q.wdt].busy = @ \cup {p}]
           /\ proc' = [proc EXCEPT ![p] =
                  [q EXCEPT !.log = Append(@, Event("make_lazy", q.wdt, q.idx)),
                            !.pc = "writing"]]
           /\ hist' = IF HasOp(q.log, "make_lazy") THEN hist
                      ELSE [hist EXCEPT !.writeCalls = Inc(@)]

\* make_lazy returns: the entry exists and holds what this process wrote
MakeLazyEnd(p) ==
    /\ proc[p].pc = "writing"
    /\ LET q == proc[p]
           path_ == CorpusPATH(q.args.path[q.idx])
       IN  /\ cache' = [cache EXCEPT ![path_][q.wdt] =
                           [present |-> TRUE, writer |-> p, data |-> q.text,
                            busy |-> @.busy \ {p}]]
           /\ proc' = [proc EXCEPT ![p] =
                  [q EXCEPT !.wrote = @ + 1,
                            !.wdt = "text",
                            !.pc = IF q.wdt = "prompt" THEN "make_lazy" ELSE "load"]]
    /\ UNCHANGED hist

\* lines 93-97: the two loader handles and the dataset over them
Load(p) ==
    /\ proc[p].pc = "load"
    /\ LET q == proc[p]
           path_ == CorpusPATH(q.args.path[q.idx])
           pr == cache[path_]["prompt"]
           tx == cache[path_]["text"]
           q1 == [q EXCEPT !.log = @ \o <<Event("lazy_array_loader", "prompt", q.idx),
                                          Event("lazy_array_loader", "text", q.idx)>>]
       IN  /\ proc' = [proc EXCEPT ![p] =
                  IF pr.present /\ tx.present
                  THEN AfterPath([q1 EXCEPT !.parts =
                                     Append(@, ChineseDataset(pr.data, tx.data))])
                  ELSE Fail(q, "FileNotFoundError")]
           /\ hist' = [hist EXCEPT !.loadDuringWrite =
                          @ \/ (pr.busy \cup tx.busy) \ {p} # {}]
    /\ UNCHANGED cache

\* lines 106-112: one dataset, or the concatenation of the list; then the shuffle
Combine(p, o) ==
    /\ proc[p].pc = "combine"
    /\ \E sh \in o.shuffle :
          LET q == proc[p]
              r0 == IF q.args.is_str THEN q.parts[1] ELSE ConcatDataset(q.parts)
              l0 == IF q.args.is_str THEN q.log
                    ELSE Append(q.log, Event("ConcatDataset", "", 0))
              r1 == IF sh THEN ShuffleDataset(r0) ELSE r0
              l1 == IF sh THEN Append(l0, Event("ShuffleDataset", "", 0)) ELSE l0
          IN  proc' = [proc EXCEPT ![p] =
                  [q EXCEPT !.args.shuffle = sh,
                            !.ds = [kind |-> "single", slots |-> <<Dataset(r1)>>],
                            !.log = l1,
                            !.pc = StageAfter("combine")]]
    /\ UNCHANGED <<cache, hist>>

\* lines 114-116: the tokenizer is the caller's, or is built on ds
\* (tokenizer_type is read only when there is no caller's tokenizer)
MakeTokenizer(p, o) ==
    /\ proc[p].pc = "tokenizer"
    /\ \E tk \in o.tokenizer :
       \E ty \in IF tk = NoTokenizer THEN o.tokenizer_type
                 ELSE {DefaultArgs.tokenizer_type} :
          LET q == [proc[p] EXCEPT !.args.tokenizer = tk, !.args.tokenizer_type = ty]
              q1 == [q EXCEPT !.log = Append(@, Event("make_tokenizer", "", 0))]
          IN  proc' = [proc EXCEPT ![p] =
                  IF tokenizer_is_none(tk)
                  THEN IF make_tokenizer_raises(ty)
                       THEN Fail(q1, "UnsupportedTokenizer")
                       ELSE [q1 EXCEPT !.tokenizer = make_tokenizer(ty, q.ds),
                                       !.pc = StageAfter("tokenizer")]
                  ELSE [q EXCEPT !.tokenizer = tk,
                                 !.pc = StageAfter("tokenizer")]]
    /\ UNCHANGED <<cache, hist>>

\* lines 122-123: should_split(split), then split_ds on the whole dataset
SplitStep(p, o) ==
    /\ proc[p].pc = "split"
    /\ \E sp \in o.split :
          LET q == proc[p] IN
          proc' = [proc EXCEPT ![p] =
              IF should_split_raises(sp)
              THEN Fail([q EXCEPT !.args.split = sp], "ZeroDivisionError")
              ELSE IF should_split(sp)
              THEN [q EXCEPT !.args.split = sp,
                             !.ds = [kind |-> "list",
                                     slots |-> split_call(q.ds.slots[1].recs, sp)],
                             !.log = Append(@, Event("split_ds", "", 0)),
                             !.pc = StageAfter("split")]
              ELSE [q EXCEPT !.args.split = sp, !.pc = StageAfter("split")]]
    /\ UNCHANGED <<cache, hist>>

\* the constructor calls that turned slots into wrapped
WindowEvents(slots, wrapped) ==
    LET ks == {k \in 1..Len(slots) : wrapped[k] # slots[k]}
        F[k \in 0..Len(slots)] ==
            IF k = 0 THEN <<>>
            ELSE IF k \in ks THEN Append(F[k - 1], Event(wrapped[k].win.kind, "", k))
            ELSE F[k - 1]
    IN  F[Len(slots)]

\* lines 118-120 and 124-147: the task window on every slot, and the return
Window(p, o) ==
    /\ proc[p].pc = "window"
    /\ \E kw \in o.kwargs, xl \in o.xl_style, so \in o.sample_one_document :
          LET q == proc[p]
              a == [q.args EXCEPT !.kwargs = kw, !.xl_style = xl,
                                  !.sample_one_document = so]
              w == IF q.ds.kind = "list"
                   THEN [k \in 1..Len(q.ds.slots) |->
                            wrap_split(q.ds.slots[k], a, q.tokenizer)]
                   ELSE <<wrap_unsplit(q.ds.slots[1], a, q.tokenizer)>>
          IN  proc' = [proc EXCEPT ![p] =
                  [q EXCEPT !.args = a,
                            !.ds.slots = w,
                            !.log = @ \o WindowEvents(q.ds.slots, w),
                            !.pc = "done"]]
    /\ UNCHANGED <<cache, hist>>

\* the caller is done with the returned pair, or with the exception
Finish(p) ==
    /\ proc[p].pc \in {"done", "failed"}
    /\ proc' = [proc EXCEPT ![p] = IdleCall]
    /\ UNCHANGED <<cache, hist>>

Step(p, o) ==
    \/ StartCall(p, o)
    \/ Finish(p)
    \/ Resolve(p)
    \/ Check(p)
    \/ Parse(p)
    \/ MakeLazyBegin(p)
    \/ MakeLazyEnd(p)
    \/ Load(p)
    \/ Combine(p, o)
    \/ MakeTokenizer(p, o)
    \/ SplitStep(p, o)
    \/ Window(p, o)

\* one process, calling make_dataset again and again with any arguments
Next == Step(1, AllOptions)

Spec == Init /\ [][Next]_vars

\* two processes making lazy calls on the registered corpus
NextConc == \E p \in Procs : Step(p, LazyDefaultOptions)

SpecConc == Init /\ [][NextConc]_vars

\* ------------------------------------------------------------------ properties
NonZero(split) == {k \in 1..Len(split) : split[k] # 0}

BothPresent(c, path_) == c[path_]["prompt"].present /\ c[path_]["text"].present

EventsAt(log, ops, k) == {j \in 1..Len(log) : log[j].op \in ops /\ log[j].slot = k}

\* the records the requested sources hold, in the order requested and then
\* shuffled if asked: computed from the arguments alone
ExpectedCombined(a) ==
    LET r0 == Flatten([k \in 1..Len(a.path) |-> SourceRecords(a.path[k])])
    IN  IF a.shuffle THEN ShuffleDataset(r0) ELSE r0

\* the records of the slots that are not None, slot after slot
SlotRecords(slots) ==
    Flatten([k \in 1..Len(slots) |->
                IF slots[k].absent THEN <<>> ELSE slots[k].recs])

WindowOps == {"bert", "gpt2", "xl"}

\* C1: in a sequence of lazy calls, at most one call parses the raw corpus and
\* at most one call writes the cache; a path of a call that started with both
\* entries present is neither parsed nor written, only loaded.
C1_MaterializeOnce ==
    /\ hist.parseCalls <= 1
    /\ hist.writeCalls <= 1
    /\ \A p \in Procs :
          LET q == proc[p] IN
          q.args.lazy =>
             \A k \in 1..Len(q.args.path) :
                (/\ supported_corpus(q.args.path[k])
                 /\ BothPresent(q.cache0, CorpusPATH(q.args.path[k])))
                => /\ EventsAt(q.log, {"get_dataset", "make_lazy"}, k) = {}
                   /\ (q.pc = "done" =>
                          Cardinality(EventsAt(q.log, {"lazy_array_loader"}, k)) = 2)

C1_Witness ==
    \E p \in Procs :
       LET q == proc[p] IN
       /\ q.pc = "done" /\ q.args.lazy
       /\ BothPresent(q.cache0, CorpusPATH(q.args.path[1]))
       /\ EventsAt(q.log, {"lazy_array_loader"}, 1) # {}
       /\ hist.parseCalls = 1

\* C2: should_split is false exactly when one entry of the proportion vector is
\* non-zero (the maximum is the sum); [10,0,0] does not split, [1,.1,.2] (here in
\* tenths) does; split_ds is called only when should_split says so.
C2_ShouldSplit ==
    /\ ~should_split(<<10, 0, 0>>)
    /\ should_split(<<10, 1, 2>>)
    /\ \A p \in Procs :
          LET q == proc[p]
              sp == q.args.split
          IN  q.pc \in {"window", "done"} =>
                 /\ should_split(sp) <=> Cardinality(NonZero(sp)) # 1
                 /\ ~should_split(sp) <=> MaxSeq(sp) = SumSeq(sp)
                 /\ HasOp(q.log, "split_ds") <=> Cardinality(NonZero(sp)) > 1
                 /\ q.ds.kind = "list" <=> Cardinality(NonZero(sp)) > 1

C2_Witness ==
    \E p \in Procs :
       LET q == proc[p] IN
       /\ q.pc = "done"
       /\ q.args.split = <<1, 0, 0>>
       /\ q.ds.kind = "single"
       /\ ~HasOp(q.log, "split_ds")

\* what the task tag and xl_style select
ExpectedWindow(a) ==
    LET t == ds_type_of(a.kwargs) IN
    IF t \in {"bert", "BERT"} THEN "bert"
    ELSE IF t \in {"gpt2", "GPT2"} THEN (IF a.xl_style THEN "xl" ELSE "gpt2")
    ELSE "none"

\* C3 as claimed: in every output each proportion of zero has a slot that is
\* None, and every slot that is not None is wrapped once, all alike.
C3_AsClaimed ==
    \A p \in Procs :
       LET q == proc[p]
           sp == q.args.split
       IN  q.pc = "done" =>
              /\ \A k \in 1..Len(sp) :
                    sp[k] = 0 => /\ q.ds.kind = "list"
                                 /\ q.ds.slots[k] = None
              /\ \A k \in 1..Len(q.ds.slots) :
                    ~q.ds.slots[k].absent => q.ds.slots[k].win.kind \in WindowOps

\* C3 as amended: in a split output the slots of proportion zero are None and are
\* never handed to a windowing constructor, and the other slots are wrapped once,
\* all with the same window, when the task tag is bert or gpt2 and are left as
\* they are otherwise; a vector with one non-zero entry gives one unsplit dataset.
C3_AbsentSlots ==
    \A p \in Procs :
       LET q == proc[p]
           sp == q.args.split
       IN  q.pc = "done" =>
              IF Cardinality(NonZero(sp)) > 1
              THEN /\ q.ds.kind = "list"
                   /\ Len(q.ds.slots) = Len(sp)
                   /\ \A k \in 1..Len(sp) :
                         /\ sp[k] = 0 <=> q.ds.slots[k] = None
                         /\ sp[k] = 0 => EventsAt(q.log, WindowOps, k) = {}
                         /\ sp[k] # 0 =>
                               /\ ~q.ds.slots[k].absent
                               /\ q.ds.slots[k].win.kind = ExpectedWindow(q.args)
                               /\ Cardinality(EventsAt(q.log, WindowOps, k))
                                     = (IF ExpectedWindow(q.args) = "none" THEN 0 ELSE 1)
                   /\ \A j, k \in NonZero(sp) : q.ds.slots[j].win = q.ds.slots[k].win
              ELSE /\ q.ds.kind = "single"
                   /\ Len(q.ds.slots) = 1
                   /\ ~q.ds.slots[1].absent
                   /\ q.ds.slots[1].win.kind = ExpectedWindow(q.args)

C3_Witness ==
    \E p \in Procs :
       LET q == proc[p] IN
       /\ q.pc = "done"
       /\ q.args.split = <<1, 1, 0>>
       /\ ExpectedWindow(q.args) = "gpt2"
       /\ q.ds.slots[TEST_DATA + 1] = None
       /\ q.ds.slots[TRAIN_DATA + 1].win.kind = "gpt2"
       /\ q.ds.slots[VAL_DATA + 1].win.kind = "gpt2"

\* C4: make_tokenizer runs at most once in a call; a call that returns hands back
\* the caller's tokenizer untouched without running it, or else ran it once, on
\* the whole combined dataset (not split, not windowed).
C4_TokenizerOnce ==
    \A p \in Procs :
       LET q == proc[p]
           n == Cardinality(EventsAt(q.log, {"make_tokenizer"}, 0))
       IN  /\ n <= 1
           /\ q.pc = "done" =>
                 IF q.args.tokenizer = CallerTokenizer
                 THEN n = 0 /\ q.tokenizer = CallerTokenizer
                 ELSE /\ n = 1
                      /\ q.tokenizer.kind = q.args.tokenizer_type
                      /\ q.tokenizer.fitOn =
                            [kind |-> "single",
                             slots |-> <<Dataset(ExpectedCombined(q.args))>>]

C4_Witness ==
    \E p \in Procs :
       LET q == proc[p] IN
       /\ q.pc = "done"
       /\ q.args.tokenizer = NoTokenizer
       /\ q.ds.kind = "list"
       /\ q.ds.slots[1].win.kind = "gpt2"
       /\ q.tokenizer.fitOn.kind = "single"
       /\ Len(q.tokenizer.fitOn.slots[1].recs) = 5

\* C5: in a lazy call a path that is no registered corpus is never checked,
\* parsed, written or loaded; the call stops there with NotImplementedError and
\* returns nothing.
C5_LazyUnsupported ==
    \A p \in Procs :
       LET q == proc[p] IN
       q.args.lazy =>
          \A k \in 1..Len(q.args.path) :
             ~supported_corpus(q.args.path[k]) =>
                /\ q.pc # "done"
                /\ q.idx <= k
                /\ EventsAt(q.log, {"exists_lazy", "get_dataset", "make_lazy",
                                    "lazy_array_loader"}, k) = {}
                /\ q.idx = k => /\ q.pc \in {"resolve", "failed"}
                                /\ q.pc = "failed" => q.error = "NotImplementedError"
                                /\ Len(q.parts) = k - 1

C5_Witness ==
    \E p \in Procs :
       LET q == proc[p] IN
       /\ q.args.lazy
       /\ q.args.path = <<"wikipedia", "d.json">>
       /\ q.pc = "failed"
       /\ q.idx = 2
       /\ q.error = "NotImplementedError"

Resolvable(lazy, path) ==
    IF lazy THEN path \in NAMED_CORPORA
    ELSE path \in NAMED_CORPORA \/ get_ext(path) \in {".json", ".jsonl", ".csv", ".tsv"}

\* C7 as claimed: a call that raises leaves the lazy cache as it found it.
C7_AsClaimed ==
    \A p \in Procs :
       proc[p].pc = "failed" =>
          \A c \in CachePaths, d \in DataTypes :
             cache[c][d].present = proc[p].cache0[c][d].present

\* C7 as amended: a call returns a pair only when every requested source was
\* resolved, and then the dataset holds all their records and comes with a
\* tokenizer; a call that raises returns nothing and removes no cache entry, but
\* the entries it wrote before raising stay.
C7_NoPartialPair ==
    \A p \in Procs :
       LET q == proc[p] IN
       /\ q.pc = "done" =>
             /\ q.error = ""
             /\ \A k \in 1..Len(q.args.path) : Resolvable(q.args.lazy, q.args.path[k])
             /\ Len(q.parts) = Len(q.args.path)
             /\ Len(SlotRecords(q.ds.slots)) = Len(ExpectedCombined(q.args))
             /\ q.tokenizer # NoTokenizer
       /\ q.pc = "failed" =>
             /\ q.error # ""
             /\ \A c \in CachePaths, d \in DataTypes :
                   q.cache0[c][d].present =>
                      /\ cache[c][d].present
                      /\ cache[c][d].data = q.cache0[c][d].data

C7_Witness ==
    \E p \in Procs :
       LET q == proc[p] IN
       /\ q.pc = "failed"
       /\ q.error = "NotImplementedError"
       /\ \E c \in CachePaths : BothPresent(cache, c) /\ ~BothPresent(q.cache0, c)

\* the place of an operation in the body of make_dataset
Rank(op) ==
    CASE op \in {"exists_lazy", "get_dataset", "make_lazy", "lazy_array_loader"} -> 1
      [] op = "ConcatDataset"  -> 2
      [] op = "ShuffleDataset" -> 3
      [] op = "make_tokenizer" -> 4
      [] op = "split_ds"       -> 5
      [] op \in WindowOps      -> 6

\* C8 as claimed: when both run, split_ds runs before make_tokenizer.
C8_AsClaimed ==
    \A p \in Procs :
       LET log == proc[p].log IN
       \A i, j \in 1..Len(log) :
          (log[i].op = "make_tokenizer" /\ log[j].op = "split_ds") => j < i

\* C8 as amended: the operations of a call run in the order resolve (with the
\* lazy materialisation of each path), concatenate, shuffle, make_tokenizer,
\* split_ds, window: make_tokenizer before split_ds, the windows after both.
C8_StageOrder ==
    \A p \in Procs :
       LET log == proc[p].log IN
       \A i, j \in 1..Len(log) :
          i < j => /\ Rank(log[i].op) <= Rank(log[j].op)
                   /\ (Rank(log[i].op) = 1 /\ Rank(log[j].op) = 1)
                         => log[i].slot <= log[j].slot

C8_Witness ==
    \E p \in Procs :
       LET log == proc[p].log IN
       /\ proc[p].pc = "done"
       /\ \E i, j, k \in 1..Len(log) :
             /\ i < j /\ j < k
             /\ log[i].op = "make_tokenizer"
             /\ log[j].op = "split_ds"
             /\ log[k].op \in WindowOps

\* C9: only the existence check decides whether a process materialises: a process
\* parses or writes only after a check that missed an entry, whatever the other
\* process is doing, and goes straight to loading only after a check that found
\* both; an entry holds what its last writer wrote.
C9_CheckIsOnlyGuard ==
    /\ \A p \in Procs :
          LET q == proc[p] IN
          /\ q.pc \in {"parse", "make_lazy", "writing"} => ~(q.saw.prompt /\ q.saw.text)
          /\ (q.pc = "load" /\ q.wrote = 0) => (q.saw.prompt /\ q.saw.text)
          /\ q.pc = "load" => BothPresent(cache, CorpusPATH(q.args.path[q.idx]))
    /\ \A c \in CachePaths, d \in DataTypes :
          cache[c][d].present =>
             /\ cache[c][d].writer \in Procs
             /\ \E n \in NAMED_CORPORA :
                   c = CorpusPATH(n) /\ cache[c][d].data = SourceRecords(n)

\* both processes passed the check with no cache, both parsed and wrote both
\* entries, and one created its loaders while the other was still writing
C9_Witness ==
    /\ \A p \in Procs :
          /\ proc[p].wrote = 2
          /\ ~proc[p].saw.prompt
          /\ HasOp(proc[p].log, "get_dataset")
    /\ hist.loadDuringWrite
    /\ hist.parseCalls = 2

\* C10: the window of every returned dataset is the one the task tag (in any
\* letter case) and xl_style select, split or not; GPT-2 and XL windows get the
\* call's tokenizer, use_tokenizer=False and sample_across_doc = not
\* sample_one_document; any other tag leaves the dataset as it was.
C10_WindowKind ==
    \A p \in Procs :
       LET q == proc[p]
           a == q.args
       IN  q.pc = "done" =>
              \A k \in 1..Len(q.ds.slots) :
                 LET d == q.ds.slots[k] IN
                 ~d.absent =>
                    /\ d.win.kind = ExpectedWindow(a)
                    /\ d.win.kind = "none" =>
                          /\ d = Dataset(d.recs)
                          /\ \A j \in 1..Len(q.log) : q.log[j].op \notin WindowOps
                    /\ d.win.kind = "bert" =>
                          d.win = [kind |-> "bert", max_seq_len |-> a.seq_length,
                                   presplit_sentences |-> presplit_of(a.kwargs)]
                    /\ d.win.kind \in {"gpt2", "xl"} =>
                          /\ d.win.tokenizer = q.tokenizer
                          /\ d.win.max_seq_len = a.seq_length
                          /\ d.win.use_tokenizer = FALSE
                          /\ d.win.sample_across_doc = ~a.sample_one_document

C10_Witness ==
    \E p \in Procs :
       LET q == proc[p] IN
       /\ q.pc = "done"
       /\ q.ds.kind = "single"
       /\ q.args.kwargs.ds_type = "GPT2"
       /\ q.args.xl_style
       /\ q.args.sample_one_document
       /\ q.ds.slots[1].win.kind = "xl"
       /\ ~q.ds.slots[1].win.sample_across_doc

====
